---- MODULE Spec2Model ----
(***************************************************************************)
(* Model of the range-coalescing fill cache and the thread-per-query       *)
(* engine of src/main.rs, over the backend of src/server.rs.               *)
(*                                                                         *)
(* Time is scaled: SLOT_SIZE is 4 seconds instead of 4500, CACHE_SIZE is   *)
(* 2 buckets instead of 10 000, and the instants chrono can represent are  *)
(* MinValidTs..MaxValidTs.  Volume is the exact sum of price * quantity    *)
(* (integers); f64 rounding is not modelled.                               *)
(*                                                                         *)
(* Specifications: Spec, queries running side by side from an empty cache; *)
(* SpecSeq, each query after the one before has ended; SpecFair, Spec with *)
(* fair scheduling of the threads and of the join loop; SpecEvict, with a  *)
(* query over more slots than the cache has buckets; SpecWarm, one query   *)
(* against a cache that earlier queries filled; SpecSlots, time_slots_map  *)
(* alone over any timestamps; SpecEmpty, with queries whose range is empty *)
(* or reversed.                                                            *)
(***************************************************************************)
EXTENDS Integers, Sequences, FiniteSets, TLC

\* ------------------------------------------------------------------ bounds
MaxQueries == 2      \* lines read from stdin in the concurrent specification
MaxSeqQueries == 3   \* lines read from stdin in the sequential specification
MaxFairQueries == 2  \* lines read from stdin in the fair specification
MaxWarmRanges == 2   \* cached ranges of the bucket a warm cache starts with
MaxSlotTs == 9       \* largest |timestamp| of the queries given to time_slots_map
MaxEvictQueries == 2 \* lines read from stdin in the specification with a three-slot query
MaxEmptyQueries == 2 \* lines read from stdin in the specification with empty ranges

\* ------------------------------------------------------- program constants
SLOT_SIZE == 4
CACHE_SIZE == 2
MinValidTs == 0 - 3
MaxValidTs == 9

\* ------------------------------------------------------------- server.rs
\* struct Fill; price and quantity are Decimal in the source.
Fill(t, d, p, q, n) ==
    [time |-> t, direction |-> d, price |-> p, quantity |-> q, sequence_number |-> n]

\* Contents of trades.csv the program may be started with.  In the first every
\* sequence_number has one instant (two fills of trade 2 share it); the second
\* carries sequence_number 1 on fills at four different instants.
FillSets ==
    { << Fill(1, 1, 10, 2, 1), Fill(3, 0 - 1, 3, 1, 2), Fill(3, 0 - 1, 2, 1, 2),
         Fill(6, 1, 5, 1, 3) >>,
      << Fill(1, 1, 10, 2, 1), Fill(2, 1, 4, 1, 1), Fill(3, 1, 5, 1, 1),
         Fill(5, 1, 6, 1, 1), Fill(8, 0 - 1, 7, 1, 4) >> }

\* DateTime::from_timestamp(t, 0) is Some
ValidTimestamp(t) == t >= MinValidTs /\ t <= MaxValidTs

\* get_fills_api: Err when a timestamp is not an instant, else the fills
\* with start < time <= end, in storage order.
get_fills_api(fills, start, end) ==
    IF ~ValidTimestamp(start) \/ ~ValidTimestamp(end)
    THEN [ok |-> FALSE, fills |-> << >>]
    ELSE [ok |-> TRUE,
          fills |-> SelectSeq(fills, LAMBDA f : ~(f.time <= start \/ f.time > end))]

\* ---------------------------------------------------------------- Count
NoCount == [tag |-> "None", val |-> 0]
Trades(n) == [tag |-> "Trades", val |-> n]
Volume(v) == [tag |-> "Volume", val |-> v]

\* Count::add; mismatched tags reach unreachable!()
CountAdd(a, b) ==
    IF a.tag = b.tag THEN [tag |-> a.tag, val |-> a.val + b.val]
    ELSE [tag |-> "Panic", val |-> 0]

\* if let Some(c) = count.as_mut() { c.add(x) } else { count = Some(x) }
AddOpt(count, x) == IF count.tag = "None" THEN x ELSE CountAdd(count, x)

\* ------------------------------------------------------------ aggregator
TimeRange(s, e) == [start |-> s, end |-> e]

SeqToSet(sq) == { sq[i] : i \in 1..Len(sq) }

RECURSIVE SumSeq(_)
SumSeq(sq) == IF sq = << >> THEN 0 ELSE Head(sq) + SumSeq(Tail(sq))

InRange(f, range) == f.time > range.start /\ f.time <= range.end

\* CountFilter::filter_fills: distinct sequence numbers of the qualifying fills
filter_fills(fills, range, dirs) ==
    Cardinality({ f.sequence_number :
                    f \in { g \in SeqToSet(fills) : InRange(g, range) /\ g.direction \in dirs } })

AllDirections == {0 - 1, 0, 1}
taker_trades(fills, range) == filter_fills(fills, range, AllDirections)
market_buys(fills, range) == filter_fills(fills, range, {1})
market_sells(fills, range) == filter_fills(fills, range, {0 - 1})

\* CountFilter::trading_volume: sum over every qualifying fill, no dedup
trading_volume(fills, range) ==
    LET q == SelectSeq(fills, LAMBDA f : InRange(f, range))
    IN  SumSeq([i \in 1..Len(q) |-> q[i].price * q[i].quantity])

\* count_from_range with an empty slice converted by From<usize>, whatever the kind
count_from_range_into(kind, fills, range) ==
    IF SelectSeq(fills, LAMBDA f : InRange(f, range)) = << >> THEN Trades(0)
    ELSE CASE kind = "TradingVolume" -> Volume(trading_volume(fills, range))
           [] kind = "MarketBuys"    -> Trades(market_buys(fills, range))
           [] kind = "MarketSells"   -> Trades(market_sells(fills, range))
           [] OTHER                  -> Trades(taker_trades(fills, range))

\* Query::count_from_range
count_from_range(kind, fills, range) ==
    CASE kind = "TradingVolume" -> Volume(trading_volume(fills, range))
      [] kind = "MarketBuys"    -> Trades(market_buys(fills, range))
      [] kind = "MarketSells"   -> Trades(market_sells(fills, range))
      [] OTHER                  -> Trades(taker_trades(fills, range))

\* ------------------------------------------------------------- the query
\* A line of stdin after split_whitespace: a sequence of tokens.  A token is
\* a decimal i64 numeral (isInt, with its value) or any other word.
Num(n) == [isInt |-> TRUE, int |-> n, str |-> ""]
Word(w) == [isInt |-> FALSE, int |-> 0, str |-> w]

\* str::parse::<i64>
ParseI64(tok) == [ok |-> tok.isInt, val |-> tok.int]

ParseErr == [ok |-> FALSE, query_type |-> "", range |-> TimeRange(0, 0)]

\* from_str with an unknown kind taken for taker trades instead of rejected
from_str_lenient(line) ==
    IF Len(line) < 3 \/ ~ParseI64(line[2]).ok \/ ~ParseI64(line[3]).ok \/ line[1].isInt
    THEN ParseErr
    ELSE [ok |-> TRUE,
          query_type |-> CASE line[1].str = "V" -> "TradingVolume"
                           [] line[1].str = "B" -> "MarketBuys"
                           [] line[1].str = "S" -> "MarketSells"
                           [] OTHER -> "TakerTrades",
          range |-> TimeRange(ParseI64(line[2]).val, ParseI64(line[3]).val)]

\* Query::from_str: count token, start, end, then the kind of count
from_str(line) ==
    IF Len(line) < 1 THEN ParseErr                      \* Missing count
    ELSE IF Len(line) < 2 THEN ParseErr                 \* Missing start timestamp
    ELSE IF ~ParseI64(line[2]).ok THEN ParseErr         \* Failed to parse start
    ELSE IF Len(line) < 3 THEN ParseErr                 \* Missing end timestamp
    ELSE IF ~ParseI64(line[3]).ok THEN ParseErr         \* Failed to parse end
    ELSE LET range == TimeRange(ParseI64(line[2]).val, ParseI64(line[3]).val)
             count == line[1]
         IN  IF count.isInt THEN ParseErr
             ELSE CASE count.str = "C" -> [ok |-> TRUE, query_type |-> "TakerTrades", range |-> range]
                    [] count.str = "B" -> [ok |-> TRUE, query_type |-> "MarketBuys", range |-> range]
                    [] count.str = "S" -> [ok |-> TRUE, query_type |-> "MarketSells", range |-> range]
                    [] count.str = "V" -> [ok |-> TRUE, query_type |-> "TradingVolume", range |-> range]
                    [] OTHER -> ParseErr                \* Invalid count request

\* i64 division, which truncates toward zero
TruncDiv(a, b) == IF a >= 0 THEN a \div b ELSE 0 - ((0 - a) \div b)

\* Query::time_slots_map: the loop, the HashMap as a function slot -> <<start, end>>;
\* a later insert under the same key replaces the earlier one.
RECURSIVE SlotsLoop(_, _, _)
SlotsLoop(current_time, end, map) ==
    IF ~(current_time < end) THEN map
    ELSE LET half_hour_slot == TruncDiv(current_time, SLOT_SIZE) * SLOT_SIZE
             next0 == half_hour_slot + SLOT_SIZE
             next_time == IF next0 > end THEN end ELSE next0
             map2 == [k \in (DOMAIN map) \cup {half_hour_slot} |->
                         IF k = half_hour_slot THEN <<current_time, next_time>> ELSE map[k]]
         IN  SlotsLoop(next_time, end, map2)

\* a decomposition that first puts the two ends of the range in order
time_slots_map_ordered(range) ==
    IF range.start <= range.end THEN SlotsLoop(range.start, range.end, << >>)
    ELSE SlotsLoop(range.end, range.start, << >>)

time_slots_map(range) == SlotsLoop(range.start, range.end, << >>)

\* ------------------------------------------------------------ the LRU cache
\* LruCache<Slot, HashMap<TimeRange, Vec<Fill>>>: order lists the cached slots
\* from least to most recently used, map holds their buckets.
EmptyCache == [order |-> << >>, map |-> << >>]

Contains(c, slot) == slot \in DOMAIN c.map

Without(order, slot) == SelectSeq(order, LAMBDA s : s # slot)

\* the recency update of LruCache::get and get_mut on a hit
Touch(order, slot) == Append(Without(order, slot), slot)

\* a lookup that leaves the recency order alone, as LruCache::peek does
LruPeek(c, slot) == c

\* LruCache::get / get_mut: a hit makes the slot the most recently used
LruGet(c, slot) ==
    IF Contains(c, slot) THEN [c EXCEPT !.order = Touch(c.order, slot)] ELSE c

\* LruCache::put: replace, or insert, evicting the least recently used at capacity
LruPut(c, slot, bucket) ==
    IF Contains(c, slot)
    THEN [order |-> Touch(c.order, slot), map |-> [c.map EXCEPT ![slot] = bucket]]
    ELSE LET full == Len(c.order) >= CACHE_SIZE
             victim == Head(c.order)
             keep == IF full THEN (DOMAIN c.map) \ {victim} ELSE DOMAIN c.map
             order2 == IF full THEN Tail(c.order) ELSE c.order
         IN  [order |-> Append(order2, slot),
              map |-> [k \in keep \cup {slot} |-> IF k = slot THEN bucket ELSE c.map[k]]]

\* an insert that takes the range for half-open at its end and drops the fills at range.end
BucketInsertExclusiveEnd(bucket, range, fills) ==
    [r \in (DOMAIN bucket) \cup {range} |->
        IF r = range THEN SelectSeq(fills, LAMBDA f : f.time < range.end) ELSE bucket[r]]

\* HashMap::insert on a bucket
BucketInsert(bucket, range, fills) ==
    [r \in (DOMAIN bucket) \cup {range} |-> IF r = range THEN fills ELSE bucket[r]]

\* ------------------------------------------------- Query::get_count, the scan
\* the loop body with Overlap-before assigning query_start instead of query_end
ScanOneSwapped(kind, cached_range, fills, st) ==
    IF st.qs <= cached_range.end /\ st.qe >= cached_range.start
    THEN IF st.qs >= cached_range.start /\ st.qe <= cached_range.end
         THEN [st EXCEPT !.count = AddOpt(@, count_from_range(kind, fills, TimeRange(st.qs, st.qe))),
                         !.brk = "contained"]
         ELSE IF st.qs <= cached_range.start /\ st.qe >= cached_range.end
         THEN [st EXCEPT !.count = AddOpt(@, count_from_range(kind, fills, cached_range)),
                         !.brk = "containing", !.c = cached_range]
         ELSE IF st.qs <= cached_range.start /\ st.qe <= cached_range.end
         THEN [st EXCEPT !.count = AddOpt(@, count_from_range(kind, fills,
                                               TimeRange(cached_range.start, st.qe))),
                         !.qs = cached_range.start]
         ELSE IF st.qs >= cached_range.start /\ st.qe >= cached_range.end
         THEN [st EXCEPT !.count = AddOpt(@, count_from_range(kind, fills,
                                               TimeRange(st.qs, cached_range.end))),
                         !.qs = cached_range.end]
         ELSE st
    ELSE st

\* One iteration of `for (cached_range, fills) in cached_range_fill_map.iter()`
\* on the scan state st = [qs, qe, count, brk, c]: brk names the branch that
\* left the loop ("" while it runs) and c the cached range of a Containing hit.
ScanOne(kind, cached_range, fills, st) ==
    IF st.qs <= cached_range.end /\ st.qe >= cached_range.start
    THEN IF st.qs >= cached_range.start /\ st.qe <= cached_range.end
         THEN [st EXCEPT !.count = AddOpt(@, count_from_range(kind, fills, TimeRange(st.qs, st.qe))),
                         !.brk = "contained"]
         ELSE IF st.qs <= cached_range.start /\ st.qe >= cached_range.end
         THEN [st EXCEPT !.count = AddOpt(@, count_from_range(kind, fills, cached_range)),
                         !.brk = "containing", !.c = cached_range]
         ELSE IF st.qs <= cached_range.start /\ st.qe <= cached_range.end
         THEN [st EXCEPT !.count = AddOpt(@, count_from_range(kind, fills,
                                               TimeRange(cached_range.start, st.qe))),
                         !.qe = cached_range.start]
         ELSE IF st.qs >= cached_range.start /\ st.qe >= cached_range.end
         THEN [st EXCEPT !.count = AddOpt(@, count_from_range(kind, fills,
                                               TimeRange(st.qs, cached_range.end))),
                         !.qs = cached_range.end]
         ELSE st
    ELSE st

\* history: the range handed to count_from_range by that iteration, if any
MergedBy(cached_range, st) ==
    IF st.qs <= cached_range.end /\ st.qe >= cached_range.start
    THEN IF st.qs >= cached_range.start /\ st.qe <= cached_range.end
         THEN << TimeRange(st.qs, st.qe) >>
         ELSE IF st.qs <= cached_range.start /\ st.qe >= cached_range.end
         THEN << cached_range >>
         ELSE IF st.qs <= cached_range.start /\ st.qe <= cached_range.end
         THEN << TimeRange(cached_range.start, st.qe) >>
         ELSE IF st.qs >= cached_range.start /\ st.qe >= cached_range.end
         THEN << TimeRange(st.qs, cached_range.end) >>
         ELSE << >>
    ELSE << >>

\* The whole loop over a bucket: HashMap iteration order is unspecified, so the
\* result is the set of scan states that some order of the entries produces.
\* A panic in Count::add leaves the loop at once.  Two history fields follow
\* the loop: merged, the ranges counted so far, and trace, for each iteration
\* the cached range it looked at and the bounds before and after it.
RECURSIVE ScanFrom(_, _, _, _)
ScanFrom(kind, bucket, unvisited, st) ==
    IF unvisited = {} THEN {st}
    ELSE UNION { LET st1 == ScanOne(kind, c, bucket[c], st)
                     st2 == [st1 EXCEPT !.merged = @ \o MergedBy(c, st),
                                        !.trace = Append(@, [c |-> c, qs0 |-> st.qs, qe0 |-> st.qe,
                                                             qs |-> st1.qs, qe |-> st1.qe])]
                 IN  IF st2.brk # "" \/ st2.count.tag = "Panic" THEN {st2}
                     ELSE ScanFrom(kind, bucket, unvisited \ {c}, st2)
                 : c \in unvisited }

\* the scan state before the first iteration
ScanStart(qs, qe, count) ==
    [qs |-> qs, qe |-> qe, count |-> count, brk |-> "", c |-> TimeRange(0, 0),
     merged |-> << >>, trace |-> << >>]

ScanBucket(kind, bucket, qs, qe, count) ==
    ScanFrom(kind, bucket, DOMAIN bucket, ScanStart(qs, qe, count))

\* ----------------------------------------------------------------- output
\* impl Display for Count, and the literal "0" of Ok(Ok(None))
Display(count) ==
    IF count.tag = "Volume" THEN [fmt |-> "fixed6", value |-> count.val]
    ELSE [fmt |-> "integer", value |-> count.val]

ZeroLine == [fmt |-> "integer", value |-> 0]

\* ------------------------------------------------------------------ state
VARIABLES
    FILLS,      \* server::FILLS, the rows of trades.csv
    lines,      \* the lines read from stdin so far; handles[i] belongs to lines[i]
    workers,    \* the thread of each handle: its locals in get_count and its result
    cache,      \* Processor::cache, the LruCache behind the mutex
    lock,       \* the mutex: its owner (0 when free) and whether it is poisoned
    mainPc,     \* main: "reading" stdin, then "dropping" the Processor
    joined,     \* how many handles Processor::drop has joined
    stdout,     \* the lines printed, each with the handle it was printed for
    finished,   \* history: the handles in the order their threads ended
    recency     \* history: cached slots from least to most recently looked up or inserted
                \* (workers[w].merged is history too: the ranges counted into the total)

vars == <<FILLS, lines, workers, cache, lock, mainPc, joined, stdout, finished, recency>>

\* stdin: the lines the program may be given
Q(kind, start, end) == <<Word(kind), Num(start), Num(end)>>

Lines ==
    { Q("V", 0, 2), Q("C", 1, 3), Q("B", 0, 5), Q("C", 7, 9), Q("S", 0 - 4, 1), Q("V", 3, 1),
      <<Word("C"), Num(1)>>, <<Word("C"), Word("x"), Num(3)>>, Q("X", 1, 3) }

Handles == 1..Len(lines)

\* a thread as thread::spawn leaves it
Spawned ==
    [pc |-> "spawned", query_type |-> "", tsm |-> << >>, todo |-> {},
     slot |-> 0, qs |-> 0, qe |-> 0, done |-> FALSE, to_update |-> << >>,
     count |-> NoCount, c |-> TimeRange(0, 0), fetched |-> << >>, merged |-> << >>,
     result |-> [kind |-> "", count |-> NoCount]]

\* a thread that returned (Ok / Err) or panicked; its locals are gone
Ended(kind, count) ==
    [Spawned EXCEPT !.pc = "terminated", !.result = [kind |-> kind, count |-> count]]

Init ==
    /\ FILLS \in FillSets
    /\ lines = << >>
    /\ workers = << >>
    /\ cache = EmptyCache
    /\ lock = [owner |-> 0, poisoned |-> FALSE]
    /\ mainPc = "reading"
    /\ joined = 0
    /\ stdout = << >>
    /\ finished = << >>
    /\ recency = << >>

\* ------------------------------------------------------- steps of a thread
\* `for (time_slot, (query_start, query_end)) in &time_slots_map`: the next
\* entry in HashMap order (any), or `Ok(count)` after the last one.
BeginSlot(rec) ==
    IF rec.todo = {} THEN { [Ended("Ok", rec.count) EXCEPT !.merged = rec.merged] }
    ELSE { [rec EXCEPT !.pc = "scan", !.slot = s, !.todo = @ \ {s},
                       !.qs = rec.tsm[s][1], !.qe = rec.tsm[s][2],
                       !.done = FALSE, !.to_update = << >>,
                       !.c = TimeRange(0, 0), !.fetched = << >>] : s \in rec.todo }

\* `if !to_update.is_empty()` after the remaining fetch
AfterRemaining(rec) ==
    IF rec.to_update # << >> THEN { [rec EXCEPT !.pc = "update"] } ELSE BeginSlot(rec)

\* the remaining fetch taken whether or not the scan set done
AfterScanAlways(rec) == { [rec EXCEPT !.pc = "fetch_remaining"] }

\* `if !done` after the scan block
AfterScan(rec) ==
    IF ~rec.done THEN { [rec EXCEPT !.pc = "fetch_remaining"] } ELSE AfterRemaining(rec)

\* a MutexGuard that is leaked (mem::forget) instead of dropped: the owner stays
UnlockNever(panicking) == [owner |-> lock.owner, poisoned |-> lock.poisoned \/ panicking]

\* a MutexGuard dropped: by a panic it poisons the mutex
Unlock(panicking) == [owner |-> 0, poisoned |-> lock.poisoned \/ panicking]

\* the thread w moves to nxt
Becomes(w, nxt) ==
    /\ workers' = [workers EXCEPT ![w] = nxt]
    /\ finished' = IF nxt.pc = "terminated" THEN Append(finished, w) ELSE finished

\* the history of lookups and inserts, kept for the slots still cached
Touched(slot, newcache) ==
    SelectSeq(Append(Without(recency, slot), slot), LAMBDA s : Contains(newcache, s))

\* process_query's closure up to the first slot: from_str, time_slots_map
ThreadStart(w) ==
    /\ workers[w].pc = "spawned"
    /\ LET query == from_str(lines[w])
       IN  IF ~query.ok THEN Becomes(w, Ended("Ok", NoCount))
           ELSE LET tsm == time_slots_map(query.range)
                    rec == [workers[w] EXCEPT !.query_type = query.query_type,
                                              !.tsm = tsm, !.todo = DOMAIN tsm]
                IN  \E nxt \in BeginSlot(rec) : Becomes(w, nxt)
    /\ UNCHANGED <<FILLS, lines, cache, lock, mainPc, joined, stdout, recency>>

\* cache.0.lock().unwrap() panics when the mutex is poisoned
LockPanics(w) ==
    /\ Becomes(w, Ended("Panic", NoCount))
    /\ UNCHANGED <<cache, lock, recency>>

\* The first block of a slot: lock() (which waits for the mutex to be free),
\* cache_lock.get(time_slot) and the loop over the bucket.  Contained, or no
\* Containing hit: the guard is dropped at the end of the block.  Containing:
\* the thread keeps the guard and goes on to its two fetches inside the block.
Scan(w) ==
    /\ workers[w].pc = "scan"
    /\ lock.owner = 0
    /\ IF lock.poisoned THEN LockPanics(w)
       ELSE LET rec == workers[w]
                hit == Contains(cache, rec.slot)
            IN  /\ cache' = LruGet(cache, rec.slot)
                /\ recency' = IF hit THEN Touched(rec.slot, cache') ELSE recency
                /\ \E st \in (IF hit THEN ScanBucket(rec.query_type, cache.map[rec.slot],
                                                      rec.qs, rec.qe, rec.count)
                              ELSE { ScanStart(rec.qs, rec.qe, rec.count) }) :
                     LET rec2 == [rec EXCEPT !.qs = st.qs, !.qe = st.qe, !.count = st.count,
                                             !.done = (st.brk = "contained"), !.c = st.c,
                                             !.merged = @ \o st.merged]
                     IN  IF st.count.tag = "Panic"
                         THEN Becomes(w, Ended("Panic", NoCount)) /\ lock' = Unlock(TRUE)
                         ELSE IF st.brk = "containing"
                         THEN /\ Becomes(w, [rec2 EXCEPT !.pc = "fetch_before"])
                              /\ lock' = [lock EXCEPT !.owner = w]
                         ELSE /\ \E nxt \in AfterScan(rec2) : Becomes(w, nxt)
                              /\ lock' = Unlock(FALSE)
    /\ UNCHANGED <<FILLS, lines, mainPc, joined, stdout>>

\* server::get_fills_api(query_start, cached_range.start)?, inside the scan
\* block: the guard of the scan is still alive.  `?` returns Err and drops it.
FetchBefore(w) ==
    /\ workers[w].pc = "fetch_before"
    /\ LET rec == workers[w]
           before == get_fills_api(FILLS, rec.qs, rec.c.start)
       IN  IF ~before.ok
           THEN Becomes(w, Ended("Err", NoCount)) /\ lock' = Unlock(FALSE)
           ELSE Becomes(w, [rec EXCEPT !.pc = "fetch_after", !.fetched = before.fills])
                /\ lock' = lock
    /\ UNCHANGED <<FILLS, lines, cache, mainPc, joined, stdout, recency>>

\* the count of the Containing branch after both fetches; with no running
\* total, after_count is added to a copy and lost
ContainingCount(count, before_count, after_count) ==
    IF count.tag # "None" THEN CountAdd(CountAdd(count, before_count), after_count)
    ELSE before_count

\* server::get_fills_api(cached_range.end, query_end)?, then the two counts,
\* the two pushes to to_update, done = true and the break out of the block
FetchAfter(w) ==
    /\ workers[w].pc = "fetch_after"
    /\ LET rec == workers[w]
           after == get_fills_api(FILLS, rec.c.end, rec.qe)
           before_range == TimeRange(rec.qs, rec.c.start)
           after_range == TimeRange(rec.c.end, rec.qe)
           before_count == count_from_range(rec.query_type, rec.fetched, before_range)
           after_count == count_from_range(rec.query_type, after.fills, after_range)
           count == ContainingCount(rec.count, before_count, after_count)
           rec2 == [rec EXCEPT !.count = count, !.done = TRUE, !.fetched = << >>,
                               !.merged = @ \o << before_range, after_range >>,
                               !.to_update = @ \o << [range |-> before_range, fills |-> rec.fetched],
                                                     [range |-> after_range, fills |-> after.fills] >>]
       IN  IF ~after.ok
           THEN Becomes(w, Ended("Err", NoCount)) /\ lock' = Unlock(FALSE)
           ELSE IF count.tag = "Panic"
           THEN Becomes(w, Ended("Panic", NoCount)) /\ lock' = Unlock(TRUE)
           ELSE /\ \E nxt \in AfterScan(rec2) : Becomes(w, nxt)
                /\ lock' = Unlock(FALSE)
    /\ UNCHANGED <<FILLS, lines, cache, mainPc, joined, stdout, recency>>

\* the remaining fetch with a rollback: when it fails, the buckets of the
\* query's slots are taken out of the cache before Err is returned
FetchRemainingRollback(w) ==
    /\ workers[w].pc = "fetch_remaining"
    /\ LET rec == workers[w]
           remaining == get_fills_api(FILLS, rec.qs, rec.qe)
           count == AddOpt(rec.count, count_from_range(rec.query_type, remaining.fills,
                                                        TimeRange(rec.qs, rec.qe)))
           keep == (DOMAIN cache.map) \ (DOMAIN rec.tsm)
       IN  IF ~remaining.ok
           THEN /\ Becomes(w, Ended("Err", NoCount))
                /\ cache' = [order |-> SelectSeq(cache.order, LAMBDA s : s \in keep),
                             map |-> [s \in keep |-> cache.map[s]]]
                /\ recency' = SelectSeq(recency, LAMBDA s : s \in keep)
           ELSE /\ Becomes(w, [rec EXCEPT !.pc = "insert", !.count = count,
                                          !.fetched = remaining.fills,
                                          !.merged = Append(@, TimeRange(rec.qs, rec.qe))])
                /\ UNCHANGED <<cache, recency>>
    /\ UNCHANGED <<FILLS, lines, lock, mainPc, joined, stdout>>

\* server::get_fills_api(query_start, query_end)? outside the lock, and the
\* count of what it returned
FetchRemaining(w) ==
    /\ workers[w].pc = "fetch_remaining"
    /\ LET rec == workers[w]
           remaining == get_fills_api(FILLS, rec.qs, rec.qe)
           count == AddOpt(rec.count, count_from_range(rec.query_type, remaining.fills,
                                                        TimeRange(rec.qs, rec.qe)))
       IN  IF ~remaining.ok THEN Becomes(w, Ended("Err", NoCount))
           ELSE IF count.tag = "Panic" THEN Becomes(w, Ended("Panic", NoCount))
           ELSE Becomes(w, [rec EXCEPT !.pc = "insert", !.count = count,
                                       !.fetched = remaining.fills,
                                       !.merged = Append(@, TimeRange(rec.qs, rec.qe))])
    /\ UNCHANGED <<FILLS, lines, cache, lock, mainPc, joined, stdout, recency>>

\* the insert without its get_mut arm: always put(time_slot, new bucket)
InsertRemainingPut(c, slot, range, fills) == LruPut(c, slot, BucketInsert(<< >>, range, fills))

\* get_mut(time_slot) { insert } else { put(time_slot, new bucket) }
InsertRemaining(c, slot, range, fills) ==
    IF Contains(c, slot)
    THEN LET g == LruGet(c, slot)
         IN  [g EXCEPT !.map[slot] = BucketInsert(@, range, fills)]
    ELSE LruPut(c, slot, BucketInsert(<< >>, range, fills))

\* The second block: lock(), insert the remaining range, drop the guard.
Insert(w) ==
    /\ workers[w].pc = "insert"
    /\ lock.owner = 0
    /\ IF lock.poisoned THEN LockPanics(w)
       ELSE LET rec == workers[w]
            IN  /\ cache' = InsertRemaining(cache, rec.slot, TimeRange(rec.qs, rec.qe), rec.fetched)
                /\ recency' = Touched(rec.slot, cache')
                /\ \E nxt \in AfterRemaining([rec EXCEPT !.fetched = << >>]) : Becomes(w, nxt)
                /\ lock' = Unlock(FALSE)
    /\ UNCHANGED <<FILLS, lines, mainPc, joined, stdout>>

RECURSIVE InsertAll(_, _)
InsertAll(bucket, to_update) ==
    IF to_update = << >> THEN bucket
    ELSE InsertAll(BucketInsert(bucket, Head(to_update).range, Head(to_update).fills),
                   Tail(to_update))

\* if let Some(cache_entry) = get_mut(time_slot) { insert every gap }
ApplyUpdates(c, slot, to_update) ==
    IF Contains(c, slot)
    THEN LET g == LruGet(c, slot)
         IN  [g EXCEPT !.map[slot] = InsertAll(@, to_update)]
    ELSE c

\* The third block: lock(), insert the gaps of a Containing hit, drop the guard.
Update(w) ==
    /\ workers[w].pc = "update"
    /\ lock.owner = 0
    /\ IF lock.poisoned THEN LockPanics(w)
       ELSE LET rec == workers[w]
            IN  /\ cache' = ApplyUpdates(cache, rec.slot, rec.to_update)
                /\ recency' = IF Contains(cache, rec.slot) THEN Touched(rec.slot, cache')
                              ELSE recency
                /\ \E nxt \in BeginSlot(rec) : Becomes(w, nxt)
                /\ lock' = Unlock(FALSE)
    /\ UNCHANGED <<FILLS, lines, mainPc, joined, stdout>>

\* ------------------------------------------------------------ main thread
\* Processor::process_query: spawn the thread, push its handle
process_query(line) ==
    /\ lines' = Append(lines, line)
    /\ workers' = Append(workers, Spawned)
    /\ UNCHANGED <<FILLS, cache, lock, mainPc, joined, stdout, finished, recency>>

\* main's loop over stdin, threads running alongside
Submit ==
    /\ mainPc = "reading"
    /\ Len(lines) < MaxQueries
    /\ \E line \in Lines : process_query(line)

\* the same loop when every earlier thread has ended before the next line arrives
SubmitSeq ==
    /\ mainPc = "reading"
    /\ Len(lines) < MaxSeqQueries
    /\ \A w \in Handles : workers[w].pc = "terminated"
    /\ \E line \in Lines : process_query(line)

\* stdin ends; main returns and the Processor is dropped
EndOfInput ==
    /\ mainPc = "reading"
    /\ mainPc' = "dropping"
    /\ UNCHANGED <<FILLS, lines, workers, cache, lock, joined, stdout, finished, recency>>

\* the handles taken from the back, as by pop()
DrainLast(n) == Len(lines) - n

\* self.handles.drain(..): the handle joined after `joined` of them
DrainNext(n) == n + 1

\* the match without its Ok(Ok(None)) arm printing
PrintedNoZero(result) ==
    IF result.kind = "Ok" /\ result.count.tag # "None" THEN << Display(result.count) >> ELSE << >>

\* the match on handle.join(): what it prints for the thread's result
Printed(result) ==
    IF result.kind = "Ok"
    THEN IF result.count.tag # "None" THEN << Display(result.count) >> ELSE << ZeroLine >>
    ELSE << >>

\* one iteration of the loop in Processor::drop; join blocks until the thread ended
Join ==
    /\ mainPc = "dropping"
    /\ joined < Len(lines)
    /\ LET h == DrainNext(joined)
       IN  /\ workers[h].pc = "terminated"
           /\ stdout' = stdout \o [i \in 1..Len(Printed(workers[h].result)) |->
                                      [handle |-> h, text |-> Printed(workers[h].result)[i]]]
    /\ joined' = joined + 1
    /\ UNCHANGED <<FILLS, lines, workers, cache, lock, mainPc, finished, recency>>

Next ==
    \/ Submit
    \/ EndOfInput
    \/ Join
    \/ \E w \in Handles : ThreadStart(w)
    \/ \E w \in Handles : Scan(w)
    \/ \E w \in Handles : FetchBefore(w)
    \/ \E w \in Handles : FetchAfter(w)
    \/ \E w \in Handles : FetchRemaining(w)
    \/ \E w \in Handles : Insert(w)
    \/ \E w \in Handles : Update(w)

Spec == Init /\ [][Next]_vars

NextSeq ==
    \/ SubmitSeq
    \/ EndOfInput
    \/ Join
    \/ \E w \in Handles : ThreadStart(w)
    \/ \E w \in Handles : Scan(w)
    \/ \E w \in Handles : FetchBefore(w)
    \/ \E w \in Handles : FetchAfter(w)
    \/ \E w \in Handles : FetchRemaining(w)
    \/ \E w \in Handles : Insert(w)
    \/ \E w \in Handles : Update(w)

SpecSeq == Init /\ [][NextSeq]_vars

\* ------------------------------------------------------ fair scheduling
\* stdin for the fair specification, every query within one slot: one that
\* completes, one that takes the Containing branch over it and keeps the mutex
\* through its fetches, one whose fetch fails, one that does not parse
FairLines == { Q("C", 1, 3), Q("B", 0, 4), Q("S", 0 - 4, 0), <<Word("C"), Num(1)>> }

SubmitFair ==
    /\ mainPc = "reading"
    /\ Len(lines) < MaxFairQueries
    /\ \E line \in FairLines : process_query(line)

\* every step of the thread behind handle w
Thread(w) ==
    /\ w \in Handles
    /\ \/ ThreadStart(w) \/ Scan(w) \/ FetchBefore(w) \/ FetchAfter(w)
       \/ FetchRemaining(w) \/ Insert(w) \/ Update(w)

NextFair ==
    \/ SubmitFair
    \/ EndOfInput
    \/ Join
    \/ \E w \in Handles : ThreadStart(w)
    \/ \E w \in Handles : Scan(w)
    \/ \E w \in Handles : FetchBefore(w)
    \/ \E w \in Handles : FetchAfter(w)
    \/ \E w \in Handles : FetchRemaining(w)
    \/ \E w \in Handles : Insert(w)
    \/ \E w \in Handles : Update(w)

\* The operating system runs every thread that can take a step, a thread
\* blocked in lock() among them once the mutex is free, and the main thread
\* in join() once the joined thread has ended.  stdin need never end.
SpecFair ==
    /\ Init
    /\ [][NextFair]_vars
    /\ \A w \in 1..MaxFairQueries : WF_vars(Thread(w))
    /\ WF_vars(Join)

\* ------------------------------------------------------------ warm cache
\* One query resolved against a cache that earlier queries have filled.  A
\* bucket holds what queries within its slot inserted on a miss: any ranges
\* (a, b) with a < b inside the slot that the backend answers, overlapping
\* ones too when the queries ran side by side and all missed.  Each holds the
\* fills the backend gave.
WarmSlots == {0, SLOT_SIZE, 2 * SLOT_SIZE}

WarmRanges(slot) ==
    { TimeRange(a, b) : <<a, b>> \in { x \in (slot..(slot + SLOT_SIZE)) \X (slot..(slot + SLOT_SIZE)) :
                                          x[1] < x[2] /\ ValidTimestamp(x[2]) } }

WarmBucket(fills, ranges) == [r \in ranges |-> get_fills_api(fills, r.start, r.end).fills]

WarmCaches(fills) ==
    {EmptyCache} \cup
    UNION { { [order |-> <<slot>>, map |-> [k \in {slot} |-> WarmBucket(fills, ranges)]] :
                ranges \in { x \in SUBSET WarmRanges(slot) :
                                x # {} /\ Cardinality(x) <= MaxWarmRanges } } :
            slot \in WarmSlots }

\* the query: taker trades or volume over any range of the first two slots,
\* or taker trades over a range that ends after the last instant
WarmLines ==
    { Q(kind, x[1], x[2]) : kind \in {"C", "V"},
                            x \in { y \in (0..(SLOT_SIZE + 1)) \X (1..(2 * SLOT_SIZE)) : y[1] < y[2] } }
    \cup { Q("C", 2 * SLOT_SIZE - 1, MaxValidTs + 1) }

\* the state after process_query has spawned the thread of the one query
InitWarm ==
    /\ FILLS \in FillSets
    /\ cache \in WarmCaches(FILLS)
    /\ recency = cache.order
    /\ lines \in { <<line>> : line \in WarmLines }
    /\ workers = << Spawned >>
    /\ lock = [owner |-> 0, poisoned |-> FALSE]
    /\ mainPc = "reading"
    /\ joined = 0
    /\ stdout = << >>
    /\ finished = << >>

NextWarm ==
    \/ EndOfInput
    \/ Join
    \/ \E w \in Handles : ThreadStart(w)
    \/ \E w \in Handles : Scan(w)
    \/ \E w \in Handles : FetchBefore(w)
    \/ \E w \in Handles : FetchAfter(w)
    \/ \E w \in Handles : FetchRemaining(w)
    \/ \E w \in Handles : Insert(w)
    \/ \E w \in Handles : Update(w)

SpecWarm == InitWarm /\ [][NextWarm]_vars

\* ------------------------------------------------- more slots than buckets
\* stdin with a query over three slots, one more than the cache holds, and a
\* query over the first two
EvictLines == { Q("B", 0, 5), Q("C", 3, 9) }

SubmitEvict ==
    /\ mainPc = "reading"
    /\ Len(lines) < MaxEvictQueries
    /\ \E line \in EvictLines : process_query(line)

NextEvict ==
    \/ SubmitEvict
    \/ EndOfInput
    \/ Join
    \/ \E w \in Handles : ThreadStart(w)
    \/ \E w \in Handles : Scan(w)
    \/ \E w \in Handles : FetchBefore(w)
    \/ \E w \in Handles : FetchAfter(w)
    \/ \E w \in Handles : FetchRemaining(w)
    \/ \E w \in Handles : Insert(w)
    \/ \E w \in Handles : Update(w)

SpecEvict == Init /\ [][NextEvict]_vars

\* ------------------------------------------------------- slot decomposition
\* time_slots_map on its own: one query with any timestamps, negative ones
\* too, and the thread's first step, which computes the map.
SlotLines ==
    { Q("C", x[1], x[2]) : x \in ((0 - MaxSlotTs)..MaxSlotTs) \X ((0 - MaxSlotTs)..MaxSlotTs) }

InitSlots ==
    /\ FILLS \in FillSets
    /\ cache = EmptyCache
    /\ recency = << >>
    /\ lines \in { <<line>> : line \in SlotLines }
    /\ workers = << Spawned >>
    /\ lock = [owner |-> 0, poisoned |-> FALSE]
    /\ mainPc = "reading"
    /\ joined = 0
    /\ stdout = << >>
    /\ finished = << >>

NextSlots == \E w \in Handles : ThreadStart(w)

SpecSlots == InitSlots /\ [][NextSlots]_vars

\* ------------------------------------------------------------ empty ranges
\* stdin with queries whose start is not before their end (reversed, equal,
\* equal outside the instants the backend accepts, of every kind) beside two
\* queries within one slot that fill the cache and take every branch
EmptyLines ==
    { Q("C", 1, 3), Q("B", 0, 4),
      Q("V", 3, 1), Q("C", 5, 5), Q("B", 9, 0), Q("S", MinValidTs - 2, MinValidTs - 2) }

SubmitEmpty ==
    /\ mainPc = "reading"
    /\ Len(lines) < MaxEmptyQueries
    /\ \E line \in EmptyLines : process_query(line)

NextEmpty ==
    \/ SubmitEmpty
    \/ EndOfInput
    \/ Join
    \/ \E w \in Handles : ThreadStart(w)
    \/ \E w \in Handles : Scan(w)
    \/ \E w \in Handles : FetchBefore(w)
    \/ \E w \in Handles : FetchAfter(w)
    \/ \E w \in Handles : FetchRemaining(w)
    \/ \E w \in Handles : Insert(w)
    \/ \E w \in Handles : Update(w)

SpecEmpty == Init /\ [][NextEmpty]_vars

\* ================================================================ claims
Terminated(w) == workers[w].pc = "terminated"
Query(w) == from_str(lines[w])
Completed(w) == Terminated(w) /\ Query(w).ok /\ workers[w].result.kind = "Ok"
Failed(w) == Terminated(w) /\ workers[w].result.kind = "Err"
Drained == mainPc = "dropping" /\ joined = Len(lines)

\* the aggregate computed directly from the full fill set restricted to the range
DirectCount(kind, range) == count_from_range(kind, FILLS, range)

\* the slots a line decomposes into
SlotsOf(line) == IF from_str(line).ok THEN DOMAIN time_slots_map(from_str(line).range) ELSE {}

\* a thread inside server::get_fills_api, and the range it asked for
InFetch(w) == workers[w].pc \in {"fetch_before", "fetch_after", "fetch_remaining"}
FetchRange(w) ==
    CASE workers[w].pc = "fetch_before" -> TimeRange(workers[w].qs, workers[w].c.start)
      [] workers[w].pc = "fetch_after"  -> TimeRange(workers[w].c.end, workers[w].qe)
      [] OTHER                          -> TimeRange(workers[w].qs, workers[w].qe)

\* C1: every completed query with start < end returns exactly the aggregate
\* computed directly from the full fill set restricted to (start, end],
\* whatever the cache held and in whatever order its buckets were scanned.
C1_CacheTransparency ==
    \A w \in Handles :
        (Completed(w) /\ Query(w).range.start < Query(w).range.end)
            => workers[w].result.count = DirectCount(Query(w).query_type, Query(w).range)

\* a non-empty range that one cached range of the slot's bucket covers
CoveredByCache(slot, r) ==
    /\ Contains(cache, slot)
    /\ \E cr \in DOMAIN cache.map[slot] : cr.start <= r.start /\ r.end <= cr.end

\* no bucket can have been evicted: the lines so far use at most CACHE_SIZE slots
NoEviction == Cardinality(UNION { SlotsOf(lines[w]) : w \in Handles }) <= CACHE_SIZE

\* C2: when a line is resolved a second time right after its first resolution
\* completed, with no eviction, the second resolution returns the same result
\* and fetches no non-empty sub-range that a cached range already covers.
C2_IdempotentNoRefetch ==
    \A w \in Handles :
        (w > 1 /\ lines[w] = lines[w - 1] /\ Completed(w - 1) /\ NoEviction) =>
            /\ (InFetch(w) /\ FetchRange(w).start < FetchRange(w).end)
                   => ~CoveredByCache(workers[w].slot, FetchRange(w))
            /\ Completed(w) => workers[w].result = workers[w - 1].result

\* C3: the lines printed at drain are in submission order: a line of an
\* earlier handle is printed before every line of a later handle.
C3_OrderPreservation ==
    \A i, j \in 1..Len(stdout) : i < j => stdout[i].handle < stdout[j].handle

\* the second thread ended first, and both lines are out, first handle first
C3_Witness ==
    /\ Len(finished) >= 2 /\ finished[1] = 2 /\ finished[2] = 1
    /\ Len(stdout) >= 2 /\ stdout[1].handle = 1 /\ stdout[2].handle = 2

\* C4: with two or more queries sharing the cache, under any interleaving every
\* query that completes (start < end) returns the aggregate computed directly
\* from the full fill set for its range, and every cached range holds exactly
\* the backend's fills for it.
C4_ConcurrentTransparency ==
    /\ \A w \in Handles :
           (Len(lines) >= 2 /\ Completed(w) /\ Query(w).range.start < Query(w).range.end)
               => workers[w].result.count.val
                      = DirectCount(Query(w).query_type, Query(w).range).val
    /\ \A slot \in DOMAIN cache.map : \A r \in DOMAIN cache.map[slot] :
           cache.map[slot][r] = get_fills_api(FILLS, r.start, r.end).fills

\* C5: a thread inside a backend fetch never owns the cache mutex.
C5_NoFetchUnderLock == \A w \in Handles : InFetch(w) => lock.owner # w

\* C6: the cache never holds more than CACHE_SIZE buckets, and a bucket leaves
\* the cache only when a new bucket is admitted at capacity, and then it is
\* the bucket least recently looked up or inserted into, removed whole.
C6_EvictionBound ==
    /\ [](/\ Cardinality(DOMAIN cache.map) <= CACHE_SIZE
          /\ DOMAIN cache.map = SeqToSet(cache.order))
    /\ [][\A s \in DOMAIN cache.map :
              s \notin DOMAIN cache'.map =>
                  /\ Cardinality(DOMAIN cache.map) = CACHE_SIZE
                  /\ s = Head(recency)
                  /\ (DOMAIN cache.map) \ (DOMAIN cache'.map) = {s}
                  /\ Cardinality((DOMAIN cache'.map) \ (DOMAIN cache.map)) = 1]_vars

\* a completed query looked up or filled every one of its slots, and one of
\* them is no longer cached although the cache is full
C6_Witness ==
    /\ Cardinality(DOMAIN cache.map) = CACHE_SIZE
    /\ \E w \in Handles : Completed(w) /\ \E s \in SlotsOf(lines[w]) : ~Contains(cache, s)

\* C7: a distinct-trade count (kinds C, B, S) counts no sequence_number twice:
\* the result is at most the number of distinct sequence numbers among the
\* qualifying fills of the query's range.
C7_NoDoubleCount ==
    \A w \in Handles :
        (Completed(w) /\ Query(w).query_type # "TradingVolume"
            /\ workers[w].result.count.tag = "Trades")
        => workers[w].result.count.val
               <= Cardinality({ f.sequence_number :
                                  f \in { g \in SeqToSet(FILLS) :
                                            /\ InRange(g, Query(w).range)
                                            /\ Query(w).query_type = "MarketBuys" => g.direction = 1
                                            /\ Query(w).query_type = "MarketSells" => g.direction = 0 - 1 } })

\* the lines printed for handle h
LinesOf(h) == { i \in 1..Len(stdout) : stdout[i].handle = h }

\* C8 as stated: after the drain, one line per submitted query.
C8_OneLinePerQuery == Drained => Len(stdout) = Len(lines)

\* C8 amended: the drain prints exactly one line for every joined handle whose
\* thread returned Ok, none for a thread that returned Err or panicked, and
\* none before a handle is joined.
C8_OneLinePerOkQuery ==
    \A h \in Handles :
        Cardinality(LinesOf(h)) =
            IF h <= joined /\ workers[h].result.kind = "Ok" THEN 1 ELSE 0

\* drained, with a failed query, a completed one and an unparsable one
C8_Witness ==
    /\ Drained
    /\ \E h \in Handles : Failed(h)
    /\ \E h \in Handles : workers[h].result.kind = "Ok" /\ workers[h].result.count.tag = "None"

\* the result of a line resolved alone on an empty cache: the per-slot
\* aggregates of its decomposition, summed
RECURSIVE SumSlots(_, _, _)
SumSlots(kind, tsm, slots) ==
    IF slots = {} THEN NoCount
    ELSE LET s == CHOOSE x \in slots : TRUE
         IN  AddOpt(SumSlots(kind, tsm, slots \ {s}),
                    count_from_range(kind, FILLS, TimeRange(tsm[s][1], tsm[s][2])))

AloneResult(line) ==
    LET tsm == time_slots_map(from_str(line).range)
    IN  SumSlots(from_str(line).query_type, tsm, DOMAIN tsm)

\* C9: a failed fetch is local: the failed query prints no line, the mutex is
\* neither poisoned nor left owned by an ended thread, and a query that
\* completes beside only failed queries has the result it has when run alone.
C9_FailureIsLocal ==
    /\ \A w \in Handles : Failed(w) => LinesOf(w) = {}
    /\ ~lock.poisoned
    /\ lock.owner # 0 => ~Terminated(lock.owner)
    /\ \A w \in Handles :
           (Completed(w) /\ \A v \in Handles \ {w} : Failed(v))
               => workers[w].result.count = AloneResult(lines[w])

\* a line with a missing token, a non-integer timestamp or an unknown kind
Malformed(line) ==
    \/ Len(line) < 3
    \/ ~line[2].isInt
    \/ ~line[3].isInt
    \/ line[1].isInt
    \/ line[1].str \notin {"C", "B", "S", "V"}

\* C10: the thread of a malformed line never enters the cache or the backend
\* code and returns Ok(None); the drain prints "0" for it, after the lines of
\* all earlier handles and before those of all later ones.
C10_ParseFailureIsZero ==
    \A w \in Handles :
        Malformed(lines[w]) =>
            /\ workers[w].pc \in {"spawned", "terminated"}
            /\ lock.owner # w
            /\ Terminated(w) => workers[w].result = [kind |-> "Ok", count |-> NoCount]
            /\ w <= joined =>
                   \E i \in 1..Len(stdout) :
                       /\ stdout[i] = [handle |-> w, text |-> ZeroLine]
                       /\ \A k \in 1..Len(stdout) : (k < i) = (stdout[k].handle < w)

\* a malformed second line whose "0" is printed after the first query's line
C10_Witness ==
    /\ Len(lines) >= 2 /\ joined >= 2
    /\ Malformed(lines[2]) /\ ~Malformed(lines[1])
    /\ Len(stdout) >= 2 /\ stdout[2] = [handle |-> 2, text |-> ZeroLine]

\* C11: under fair scheduling every submitted query reaches a terminal state
\* (its thread returns Ok or Err: Completed, Invalid or Failed) and stays
\* there, so no thread waits for the mutex forever; once the Processor is
\* being dropped the drain finishes; and a handle counts as joined only when
\* its thread has ended, so the drain finishes after all of them.
C11_Termination ==
    /\ [](\A h \in Handles : h <= joined => Terminated(h))
    /\ [](Drained => \A w \in Handles :
                        Terminated(w) /\ workers[w].result.kind \in {"Ok", "Err"})
    /\ <>[](\A w \in Handles : Terminated(w))
    /\ <>[](mainPc = "dropping" => Drained)

\* drained after two queries, one completed and one failed, the second ended first
C11_Witness ==
    /\ Drained /\ Len(lines) = 2 /\ finished = <<2, 1>>
    /\ \E w \in Handles : Completed(w)
    /\ \E w \in Handles : Failed(w)

\* the tag count_from_range gives the counts of a kind of query
TagOf(kind) == IF kind = "TradingVolume" THEN "Volume" ELSE "Trades"

\* C12: Count::add never meets mismatched tags: no thread panics in
\* unreachable!() (so the mutex is never poisoned and no lock() panics), and
\* the running total of every thread is None or carries the tag of its kind.
C12_NoMismatchedAdd ==
    /\ ~lock.poisoned
    /\ \A w \in Handles :
           /\ workers[w].result.kind # "Panic"
           /\ workers[w].count.tag # "Panic"
           /\ workers[w].result.count.tag # "Panic"
           /\ workers[w].pc \notin {"spawned", "terminated"}
                  => workers[w].count.tag \in {"None", TagOf(workers[w].query_type)}
           /\ Completed(w)
                  => workers[w].result.count.tag \in {"None", TagOf(Query(w).query_type)}

\* a volume query that merged a cached restriction and then the remaining fetch
C12_Witness ==
    \E w \in Handles :
        /\ workers[w].pc = "insert"
        /\ workers[w].query_type = "TradingVolume"
        /\ <<workers[w].qs, workers[w].qe>> # workers[w].tsm[workers[w].slot]
        /\ workers[w].count.tag = "Volume"

\* C13: every line printed for a query that parsed has the form of its kind:
\* fixed-point with six fractional digits for V, an integer for C, B and S,
\* whatever the range, one with start >= end included.
C13_PrintedFormOfKind ==
    \A i \in 1..Len(stdout) :
        Query(stdout[i].handle).ok =>
            stdout[i].text.fmt =
                IF Query(stdout[i].handle).query_type = "TradingVolume" THEN "fixed6"
                ELSE "integer"

\* C14: whatever bucket a thread reads under the mutex, in every reachable
\* state, each of its (range -> fills) entries is complete: the range is one
\* the backend answers and the fills are exactly the backend's fills with
\* range.start < time <= range.end, in the backend's order.
C14_CachedEntriesComplete ==
    \A slot \in DOMAIN cache.map : \A r \in DOMAIN cache.map[slot] :
        /\ ValidTimestamp(r.start) /\ ValidTimestamp(r.end)
        /\ cache.map[slot][r] = SelectSeq(FILLS, LAMBDA f : InRange(f, r))

\* a thread holds the mutex on a bucket it has read, filled by another thread
C14_Witness ==
    \E w \in Handles :
        /\ lock.owner = w
        /\ Contains(cache, workers[w].slot)
        /\ \E r \in DOMAIN cache.map[workers[w].slot] : cache.map[workers[w].slot][r] # << >>

\* half-open intervals (a, b] that share no instant
Disjoint(p, q) ==
    (IF p.start >= q.start THEN p.start ELSE q.start) >= (IF p.end <= q.end THEN p.end ELSE q.end)

\* the counts of the pieces, each computed from the full fill set, summed in order
RECURSIVE SumPieces(_, _)
SumPieces(kind, pieces) ==
    IF pieces = << >> THEN NoCount
    ELSE AddOpt(SumPieces(kind, SubSeq(pieces, 1, Len(pieces) - 1)),
                count_from_range(kind, FILLS, pieces[Len(pieces)]))

\* C15: within one resolution of a range with start < end the sub-ranges
\* counted into the running total (cached restrictions, gaps, remaining
\* fetches, over all slots) are pairwise disjoint as intervals (a, b] and lie
\* in (start, end]; the total is the sum of their counts; and once the query
\* has completed every instant of (start, end] lies in one of them.
C15_DisjointPartition ==
    \A w \in Handles :
        (Query(w).ok /\ Query(w).range.start < Query(w).range.end) =>
            LET m == workers[w].merged
                range == Query(w).range
            IN  /\ \A i, j \in 1..Len(m) : i < j => Disjoint(m[i], m[j])
                /\ \A i \in 1..Len(m) :
                       range.start <= m[i].start /\ m[i].start <= m[i].end /\ m[i].end <= range.end
                /\ workers[w].result.kind \notin {"Err", "Panic"} =>
                       (IF Terminated(w) THEN workers[w].result.count ELSE workers[w].count)
                           = SumPieces(Query(w).query_type, m)
                /\ Completed(w) =>
                       \A t \in (range.start + 1)..range.end :
                           \E i \in 1..Len(m) : m[i].start < t /\ t <= m[i].end

\* a completed query that narrowed over two cached ranges overlapping each other
C15_Witness ==
    \E w \in Handles :
        /\ Completed(w)
        /\ Len(workers[w].merged) >= 3
        /\ \E slot \in DOMAIN cache.map : \E r1, r2 \in DOMAIN cache.map[slot] :
               /\ r1 # r2 /\ ~Disjoint(r1, r2)
               /\ \A i \in 1..Len(workers[w].merged) : workers[w].merged[i] \notin {r1, r2}

\* the runs of the loop over the bucket a thread is about to scan, one for
\* each order of the entries
ScansOf(w) ==
    IF workers[w].pc = "scan" /\ Contains(cache, workers[w].slot)
    THEN ScanBucket(workers[w].query_type, cache.map[workers[w].slot],
                    workers[w].qs, workers[w].qe, workers[w].count)
    ELSE {}

\* C16: while a bucket is scanned query_start <= query_end before and after
\* every iteration; an iteration leaves the bounds alone, or lowers query_end
\* to the cached range's start, or raises query_start to the cached range's
\* end, so the remaining interval is a sub-interval of the one before.
C16_MonotoneNarrowing ==
    \A w \in Handles :
        /\ workers[w].pc \notin {"spawned", "terminated"} => workers[w].qs <= workers[w].qe
        /\ \A st \in ScansOf(w) : \A i \in 1..Len(st.trace) :
               LET it == st.trace[i]
               IN  /\ it.qs0 <= it.qe0 /\ it.qs <= it.qe
                   /\ it.qs0 <= it.qs /\ it.qe <= it.qe0
                   /\ it.qe # it.qe0 => it.qe = it.c.start /\ it.qs = it.qs0
                   /\ it.qs # it.qs0 => it.qs = it.c.end /\ it.qe = it.qe0

\* a bucket whose scan lowers query_end in one order of its entries and raises
\* query_start in another
C16_Witness ==
    \E w \in Handles :
        /\ \E st \in ScansOf(w) : \E i \in 1..Len(st.trace) : st.trace[i].qe < st.trace[i].qe0
        /\ \E st \in ScansOf(w) : \E i \in 1..Len(st.trace) : st.trace[i].qs > st.trace[i].qs0

\* C17: for every start < end, negative timestamps included, time_slots_map
\* keys each sub-interval by floor(sub_start / SLOT_SIZE) * SLOT_SIZE (\div
\* is the floor division), each sub-interval is non-empty and lies within
\* [key, key + SLOT_SIZE], and no sub-interval is lost to a repeated key: the
\* sub-intervals cover (start, end].
C17_SlotDecomposition ==
    \A w \in Handles :
        (workers[w].pc = "scan" /\ Query(w).range.start < Query(w).range.end) =>
            LET tsm == workers[w].tsm
                range == Query(w).range
            IN  /\ \A key \in DOMAIN tsm :
                       /\ key = (tsm[key][1] \div SLOT_SIZE) * SLOT_SIZE
                       /\ key <= tsm[key][1]
                       /\ tsm[key][1] < tsm[key][2]
                       /\ tsm[key][2] <= key + SLOT_SIZE
                /\ \A t \in (range.start + 1)..range.end :
                       \E key \in DOMAIN tsm : tsm[key][1] < t /\ t <= tsm[key][2]

\* C18: when a thread that took the Containing branch (both gap fetches
\* succeeded, the gaps wait in to_update) finishes the slot's step, the
\* slot's bucket is cached and holds both gap ranges with the fetched fills,
\* whatever other threads did between its scan and its batched insertion.
C18_GapsRegistered ==
    [][\A w \in Handles :
           (workers[w].pc = "update" /\ workers'[w].pc # "update"
               /\ workers'[w].result.kind # "Panic") =>
               \A i \in 1..Len(workers[w].to_update) :
                   LET gap == workers[w].to_update[i]
                       slot == workers[w].slot
                   IN  /\ Contains(cache', slot)
                       /\ gap.range \in DOMAIN cache'.map[slot]
                       /\ cache'.map[slot][gap.range] = gap.fills]_vars

\* C19: no rollback: the step in which a thread's fetch fails, and with it
\* the resolution, leaves the cache exactly as it was, so what the same call
\* inserted before is still there with the same fills; and no entry is ever
\* cached for a range the backend refuses.
C19_NoRollback ==
    /\ [](\A slot \in DOMAIN cache.map : \A r \in DOMAIN cache.map[slot] :
              get_fills_api(FILLS, r.start, r.end).ok)
    /\ [][\A w \in Handles :
              (~Terminated(w) /\ workers'[w].pc = "terminated"
                  /\ workers'[w].result.kind = "Err") => cache' = cache]_vars

\* the query failed in the Containing branch over the one bucket the cache
\* started with, after it had inserted the range of its first slot
C19_Witness ==
    /\ Failed(1)
    /\ lock.owner = 0
    /\ DOMAIN cache.map = {SLOT_SIZE, 2 * SLOT_SIZE}
    /\ \E r \in DOMAIN cache.map[SLOT_SIZE] : cache.map[SLOT_SIZE][r] # << >>

\* C20: a cached (range -> fills) entry stays in its bucket with the same
\* fills as long as the bucket is cached: no step removes it, narrows it or
\* changes its fills, a re-insert of its range included; and a bucket leaves
\* the cache only whole, when a new bucket is put into the full cache.
C20_EntriesStable ==
    [][\A slot \in DOMAIN cache.map :
           IF slot \in DOMAIN cache'.map
           THEN \A r \in DOMAIN cache.map[slot] :
                    /\ r \in DOMAIN cache'.map[slot]
                    /\ cache'.map[slot][r] = cache.map[slot][r]
           ELSE /\ Cardinality(DOMAIN cache.map) = CACHE_SIZE
                /\ (DOMAIN cache'.map) \ (DOMAIN cache.map) # {}]_vars

\* a bucket that took inserts in several steps and still holds the first entry,
\* in a cache that has evicted a bucket
C20_Witness ==
    /\ \E slot \in DOMAIN cache.map : Cardinality(DOMAIN cache.map[slot]) >= 3
    /\ \E w \in Handles : \E s \in SlotsOf(lines[w]) : Terminated(w) /\ ~Contains(cache, s)

\* a line that parses into a query whose start is not before its end
EmptyRange(w) == Query(w).ok /\ Query(w).range.start >= Query(w).range.end

\* what holds of such a query's thread in every state
NothingToDo(w) ==
    /\ time_slots_map(Query(w).range) = << >>
    /\ workers[w].pc \in {"spawned", "terminated"}
    /\ ~InFetch(w)
    /\ lock.owner # w
    /\ Terminated(w) => workers[w].result = [kind |-> "Ok", count |-> NoCount]
    /\ w <= joined => \E i \in 1..Len(stdout) : LinesOf(w) = {i} /\ stdout[i].text = ZeroLine

\* C21: a parsed query with start >= end decomposes into no sub-interval; its
\* thread never fetches from the backend and never holds the mutex, its one
\* step ends it with Ok(None) and leaves the cache (contents and LRU order)
\* and the mutex as they were, and the drain prints exactly the line `0` for
\* it.
C21_EmptyRangeIsNoOp ==
    /\ [](\A w \in Handles : EmptyRange(w) => NothingToDo(w))
    /\ [][\A w \in Handles :
              (EmptyRange(w) /\ workers'[w] # workers[w]) =>
                  /\ cache' = cache
                  /\ recency' = recency
                  /\ lock' = lock
                  /\ workers'[w] = Ended("Ok", NoCount)]_vars

\* a reversed query, joined and printed as `0`, beside a query that has filled
\* the cache
C21_Witness ==
    \E w \in Handles :
        /\ EmptyRange(w)
        /\ Query(w).range.start > Query(w).range.end
        /\ w <= joined
        /\ \E i \in LinesOf(w) : stdout[i].text = ZeroLine
        /\ cache.order # << >>

====
